---- MODULE Spec2Model ----
(***************************************************************************)
(* Tenant-scoped session core of accesswash-web: the per-tenant API client *)
(* (lib/utils/api-client.ts), the zustand auth store (lib/stores/          *)
(* auth-store.ts), and the edge middleware (middleware.ts).                *)
(*                                                                         *)
(* JavaScript values are tagged records [type |-> ...]; a JavaScript       *)
(* string is a sequence of text chunks, so "" is << >>.  The cookie jar is *)
(* the browser's document.cookie seen through js-cookie: a function from   *)
(* the cookie names that are present to their string values.               *)
(***************************************************************************)
EXTENDS Naturals, Sequences, FiniteSets, TLC

VARIABLES
    hasWindow,   \* typeof window !== 'undefined' in this JavaScript context
    jar,         \* the cookies that are present: name -> string value
    href,        \* window.location.href, as far as the client assigns it
    store,       \* the zustand AuthState
    storeTenant, \* the tenant argument of the latest store action
    inflight,    \* requests awaiting their response, in the order they were sent
    started,     \* number of operations invoked so far
    logoutRun,   \* number of store logouts completed back to back (capped at 2)
    last,        \* the operation that ran in the latest step, with its effects
    request,     \* the request the edge middleware is handling
    xTenant,     \* the x-tenant header the middleware attached
    env,         \* window.location.hostname and process.env.NODE_ENV
    hook,        \* the memoized state of one mounted useTenant()
    clients      \* the ApiClient instances useTenant constructed, in order

vars == <<hasWindow, jar, href, store, storeTenant, inflight, started,
          logoutRun, last, request, xTenant, env, hook, clients>>

(***************************************************************************)
(* Bounds                                                                  *)
(***************************************************************************)
MaxCalls == 2   \* requests in flight at the same time
MaxOps == 2     \* operations invoked in one behaviour

(***************************************************************************)
(* JavaScript values                                                       *)
(***************************************************************************)
Undefined == [type |-> "undefined"]
Null == [type |-> "null"]
Bool(b) == [type |-> "boolean", val |-> b]
Str(s) == [type |-> "string", val |-> s]

\* !!v
Truthy(v) ==
    CASE v.type = "undefined" -> FALSE
      [] v.type = "null" -> FALSE
      [] v.type = "boolean" -> v.val
      [] v.type = "string" -> v.val # << >>
      [] OTHER -> TRUE

\* a || b
OrElse(a, b) == IF Truthy(a) THEN a ELSE b

\* v.f throws a TypeError on undefined and null
Throws(v) == v.type \in {"undefined", "null"}

\* v.f where it does not throw: a missing property reads as undefined
Get(v, f) == IF f \in DOMAIN v THEN v[f] ELSE Undefined

\* v?.f
GetOpt(v, f) == IF Throws(v) THEN Undefined ELSE Get(v, f)

Tenants == {"acme", "demo"}

Customer(id, name) == [type |-> "object", id |-> Str(<<id>>), full_name |-> Str(<<name>>)]
Customers == {Customer("c1", "Ann"), Customer("c2", "Bob")}

\* the access token the backend of a tenant issues
TokenOf(t) == Str(<<"jwt-", t>>)
Tokens(t) == [type |-> "object", access_token |-> TokenOf(t)]

(***************************************************************************)
(* JSON.stringify / JSON.parse on the values the client stores             *)
(***************************************************************************)
\* JSON.stringify(v): undefined for undefined, text otherwise
JSONStringify(v) ==
    CASE v.type = "undefined" -> Undefined
      [] v.type = "null" -> Str(<<"null">>)
      [] v.type = "string" -> Str(<<"\"">> \o v.val \o <<"\"">>)
      [] v.type = "boolean" -> Str(<<IF v.val THEN "true" ELSE "false">>)
      [] OTHER ->
            Str(<<"{", "\"id\":">> \o <<"\"">> \o v.id.val \o <<"\"">>
                \o <<",", "\"full_name\":">> \o <<"\"">> \o v.full_name.val \o <<"\"">>
                \o <<"}">>)

\* String(v), the coercion js-cookie applies to a value it writes
StringOf(v) ==
    CASE v.type = "undefined" -> <<"undefined">>
      [] v.type = "null" -> <<"null">>
      [] v.type = "string" -> v.val
      [] v.type = "boolean" -> <<IF v.val THEN "true" ELSE "false">>
      [] OTHER -> <<"[object Object]">>

IsObjectText(s) ==
    /\ Len(s) = 11
    /\ s[1] = "{" /\ s[2] = "\"id\":" /\ s[3] = "\"" /\ s[5] = "\""
    /\ s[6] = "," /\ s[7] = "\"full_name\":" /\ s[8] = "\"" /\ s[10] = "\""
    /\ s[11] = "}"

\* JSON.parse(s): [ok |-> FALSE] stands for the SyntaxError it throws
JSONParse(s) ==
    CASE s = <<"null">> -> [ok |-> TRUE, val |-> Null]
      [] s = <<"true">> -> [ok |-> TRUE, val |-> Bool(TRUE)]
      [] s = <<"false">> -> [ok |-> TRUE, val |-> Bool(FALSE)]
      [] IsObjectText(s) -> [ok |-> TRUE, val |-> Customer(s[4], s[9])]
      [] OTHER -> [ok |-> FALSE, val |-> Undefined]

(***************************************************************************)
(* Cookies (js-cookie) and the side effects of a step                      *)
(***************************************************************************)
\* a token cookie name that leaves the tenant out
SharedTokenKey(t) == <<"accesswash_token_">>

TokenKey(t) == <<"accesswash_token_", t>>
CustomerKey(t) == <<"accesswash_customer_", t>>
CookieNames == {TokenKey(t) : t \in Tenants} \cup {CustomerKey(t) : t \in Tenants}

\* The world a handler acts on: the cookie jar, window.location.href and the
\* log fx of the effects the handler had, in order.
World(j, h, fx) == [jar |-> j, href |-> h, fx |-> fx]

Fx(kind, what) == [e |-> kind, what |-> what]

\* Cookies.get(name): undefined without a document
CookiesGet(w, name) ==
    IF hasWindow /\ name \in DOMAIN w.jar THEN Str(w.jar[name]) ELSE Undefined

Read(w, name) ==
    IF hasWindow THEN [w EXCEPT !.fx = Append(@, Fx("get", name))] ELSE w

\* Cookies.set(name, value, attributes): nothing without a document
CookiesSet(w, name, value) ==
    IF hasWindow
    THEN [w EXCEPT !.jar = [n \in DOMAIN w.jar \cup {name} |->
                               IF n = name THEN StringOf(value) ELSE w.jar[n]],
                   !.fx = Append(@, Fx("set", name))]
    ELSE w

\* Cookies.remove(name)
CookiesRemove(w, name) ==
    IF hasWindow
    THEN [w EXCEPT !.jar = [n \in DOMAIN w.jar \ {name} |-> w.jar[n]],
                   !.fx = Append(@, Fx("remove", name))]
    ELSE w

(***************************************************************************)
(* The HTTP exchange (axios)                                               *)
(***************************************************************************)
\* What axios settles a request with.  status = 0: no response was received
\* (code names the transport failure; ECONNABORTED is the timeout).
HttpResponse(status, data) == [status |-> status, data |-> data, code |-> "none"]
NoResponse(code) == [status |-> 0, data |-> Undefined, code |-> code]

\* axios' default validateStatus: 2xx fulfils the promise, all else rejects it
Fulfilled(r) == r.status >= 200 /\ r.status < 300

\* error.response of the rejection
ErrorResponse(r) ==
    IF r.status = 0 THEN Undefined
    ELSE [type |-> "object", status |-> r.status, data |-> r.data]

\* the error axios rejects with
AxiosError(r) ==
    [type |-> "object", name |-> "AxiosError", code |-> r.code,
     message |-> Str(<<"Request failed">>), response |-> ErrorResponse(r)]

\* new Error(message)
Error(message) == [type |-> "object", name |-> "Error", message |-> Str(StringOf(message))]

\* the TypeError of a property read on undefined or null
TypeError == [type |-> "object", name |-> "TypeError",
              message |-> Str(<<"Cannot read properties of undefined">>)]

Return(w, v) == [w |-> w, kind |-> "return", val |-> v]
Throw(w, e) == [w |-> w, kind |-> "throw", val |-> e]

LoginPage(t) == <<"/", t, "/portal/auth/login">>

\* getAuthToken()
getAuthToken(w, t) == IF ~hasWindow THEN Null ELSE CookiesGet(w, TokenKey(t))

\* setAuthToken(token)
setAuthToken(w, t, token) == IF ~hasWindow THEN w ELSE CookiesSet(w, TokenKey(t), token)

\* clearAuthData() removing the customer cookie only
clearAuthDataCustomerOnly(w, t) ==
    IF ~hasWindow THEN w ELSE CookiesRemove(w, CustomerKey(t))

\* clearAuthData() removing the token cookie only
clearAuthDataTokenOnly(w, t) ==
    IF ~hasWindow THEN w ELSE CookiesRemove(w, TokenKey(t))

\* clearAuthData()
clearAuthData(w, t) ==
    IF ~hasWindow THEN w
    ELSE CookiesRemove(CookiesRemove(w, TokenKey(t)), CustomerKey(t))

\* a request interceptor that sets the header without looking at the token
RequestInterceptorAlways(w, t) ==
    Str(<<"Bearer ">> \o StringOf(getAuthToken(w, t)))

\* The request interceptor: the Authorization header of the request sent
RequestInterceptor(w, t) ==
    LET token == getAuthToken(w, t)
    IN  IF Truthy(token) THEN Str(<<"Bearer ">> \o token.val) ELSE Undefined

\* a response interceptor that clears the session on every rejection
ResponseInterceptorAnyError(w, t, r) ==
    IF Fulfilled(r) THEN w
    ELSE LET c == clearAuthData(w, t)
             w1 == IF hasWindow
                   THEN [c EXCEPT !.href = LoginPage(t),
                                  !.fx = Append(@, Fx("navigate", LoginPage(t)))]
                   ELSE c
         IN  [w1 EXCEPT !.fx = Append(@, Fx("reject", <<>>))]

\* The response interceptor's error branch, then Promise.reject(error)
ResponseInterceptor(w, t, r) ==
    IF Fulfilled(r) THEN w
    ELSE LET w1 == IF r.status = 401
                   THEN LET c == clearAuthData(w, t)
                        IN  IF hasWindow
                            THEN [c EXCEPT !.href = LoginPage(t),
                                           !.fx = Append(@, Fx("navigate", LoginPage(t)))]
                            ELSE c
                   ELSE w
         IN  [w1 EXCEPT !.fx = Append(@, Fx("reject", <<>>))]

\* a catch block that rethrows what it caught
NormalizedRaw(error, dflt) == error

\* catch (error) { throw new Error(error.response?.data?.message || dflt) }
Normalized(error, dflt) ==
    Error(OrElse(GetOpt(GetOpt(Get(error, "response"), "data"), "message"), Str(dflt)))

(***************************************************************************)
(* ApiClient methods, from the response r of their request onwards         *)
(***************************************************************************)
DefaultMessage(op) ==
    CASE op = "login" -> <<"Login failed">>
      [] op = "register" -> <<"Registration failed">>
      [] op = "forgotPassword" -> <<"Failed to send reset email">>
      [] op = "getDashboard" -> <<"Failed to load dashboard">>
      [] op = "getProfile" -> <<"Failed to load profile">>
      [] op = "updateProfile" -> <<"Failed to update profile">>
      [] op = "getServiceRequests" -> <<"Failed to load service requests">>
      [] op = "getServiceRequest" -> <<"Failed to load service request">>
      [] op = "createServiceRequest" -> <<"Failed to create service request">>
      [] op = "addComment" -> <<"Failed to add comment">>
      [] OTHER -> <<"">>

\* Cookies.set(`accesswash_customer_${tenant}`, JSON.stringify(value), ...)
StoreCustomer(w, t, value) == CookiesSet(w, CustomerKey(t), JSONStringify(value))

\* login and register: the body of the try block, then the catch
ApiLogin(w0, t, op, r) ==
    LET w == ResponseInterceptor(w0, t, r)
    IN  IF ~Fulfilled(r) THEN Throw(w, Normalized(AxiosError(r), DefaultMessage(op)))
        ELSE IF Throws(r.data) THEN Throw(w, Normalized(TypeError, DefaultMessage(op)))
        ELSE IF Truthy(Get(r.data, "success")) /\ Truthy(Get(r.data, "tokens"))
        THEN Return(StoreCustomer(setAuthToken(w, t, Get(Get(r.data, "tokens"), "access_token")),
                                  t, Get(r.data, "customer")),
                    r.data)
        ELSE Return(w, r.data)

\* a logout that clears the session only after the request succeeded
ApiLogoutOnSuccess(w0, t, r) ==
    IF Fulfilled(r) THEN Return(clearAuthData(ResponseInterceptor(w0, t, r), t), Undefined)
    ELSE Return(ResponseInterceptor(w0, t, r), Undefined)

\* logout: try { post } catch {} finally { clearAuthData() }
ApiLogout(w0, t, r) ==
    Return(clearAuthData(ResponseInterceptor(w0, t, r), t), Undefined)

\* an updateProfile that stores the data without looking at success
ApiUpdateProfileAlways(w0, t, r) ==
    LET w == ResponseInterceptor(w0, t, r)
    IN  IF ~Fulfilled(r) THEN Throw(w, Normalized(AxiosError(r), DefaultMessage("updateProfile")))
        ELSE IF Throws(r.data) THEN Throw(w, Normalized(TypeError, DefaultMessage("updateProfile")))
        ELSE Return(StoreCustomer(w, t, Get(r.data, "data")), r.data)

\* updateProfile
ApiUpdateProfile(w0, t, r) ==
    LET w == ResponseInterceptor(w0, t, r)
    IN  IF ~Fulfilled(r) THEN Throw(w, Normalized(AxiosError(r), DefaultMessage("updateProfile")))
        ELSE IF Throws(r.data) THEN Throw(w, Normalized(TypeError, DefaultMessage("updateProfile")))
        ELSE IF Truthy(Get(r.data, "success"))
        THEN Return(StoreCustomer(w, t, Get(r.data, "data")), r.data)
        ELSE Return(w, r.data)

\* getServiceRequests: return response.data.results || response.data
ApiGetServiceRequests(w0, t, r) ==
    LET w == ResponseInterceptor(w0, t, r)
    IN  IF ~Fulfilled(r)
        THEN Throw(w, Normalized(AxiosError(r), DefaultMessage("getServiceRequests")))
        ELSE IF Throws(r.data)
        THEN Throw(w, Normalized(TypeError, DefaultMessage("getServiceRequests")))
        ELSE Return(w, OrElse(Get(r.data, "results"), r.data))

\* forgotPassword, getDashboard, getProfile, getServiceRequest,
\* createServiceRequest, addComment: return response.data
ApiPlain(w0, t, op, r) ==
    LET w == ResponseInterceptor(w0, t, r)
    IN  IF ~Fulfilled(r) THEN Throw(w, Normalized(AxiosError(r), DefaultMessage(op)))
        ELSE Return(w, r.data)

ApiMethod(w, t, op, r) ==
    CASE op \in {"login", "register"} -> ApiLogin(w, t, op, r)
      [] op = "logout" -> ApiLogout(w, t, r)
      [] op = "updateProfile" -> ApiUpdateProfile(w, t, r)
      [] op = "getServiceRequests" -> ApiGetServiceRequests(w, t, r)
      [] OTHER -> ApiPlain(w, t, op, r)

\* getCurrentCustomer()
getCurrentCustomer(w0, t) ==
    IF ~hasWindow THEN Return(w0, Null)
    ELSE LET w == Read(w0, CustomerKey(t))
             customerData == CookiesGet(w, CustomerKey(t))
         IN  IF ~Truthy(customerData) THEN Return(w, Null)
             ELSE IF JSONParse(customerData.val).ok
                  THEN Return(w, JSONParse(customerData.val).val)
                  ELSE Return(w, Null)

\* an isAuthenticated() that looks at the token alone
isAuthenticatedTokenOnly(w0, t) ==
    LET w == IF hasWindow THEN Read(w0, TokenKey(t)) ELSE w0
    IN  Return(w, Bool(Truthy(getAuthToken(w, t))))

\* isAuthenticated(): !!this.getAuthToken() && !!this.getCurrentCustomer()
isAuthenticated(w0, t) ==
    LET w == IF hasWindow THEN Read(w0, TokenKey(t)) ELSE w0
    IN  IF ~Truthy(getAuthToken(w, t)) THEN Return(w, Bool(FALSE))
        ELSE LET c == getCurrentCustomer(w, t)
             IN  Return(c.w, Bool(Truthy(c.val)))

(***************************************************************************)
(* The auth store (zustand): each action from its api call's outcome o on  *)
(***************************************************************************)
InitialStore ==
    [customer |-> Null, loading |-> FALSE, error |-> Null, isAuthenticated |-> FALSE]

Done(st, kind, val) == [store |-> st, kind |-> kind, val |-> val]

\* the catch block of login and register, which rethrows
StoreLoginCatch(st, error) ==
    Done([st EXCEPT !.error = Get(error, "message"), !.loading = FALSE,
                    !.isAuthenticated = FALSE, !.customer = Null],
         "throw", error)

\* login and register after `await api.login(credentials)`
StoreLoginSettled(st, op, o) ==
    IF o.kind = "throw" THEN StoreLoginCatch(st, o.val)
    ELSE IF Truthy(Get(o.val, "success"))
    THEN IF Throws(Get(o.val, "data"))
         THEN StoreLoginCatch(st, TypeError)
         ELSE Done([st EXCEPT !.customer = Get(Get(o.val, "data"), "customer"),
                              !.isAuthenticated = TRUE, !.loading = FALSE],
                   "return", Undefined)
    ELSE StoreLoginCatch(st, Error(OrElse(Get(o.val, "message"), Str(DefaultMessage(op)))))

\* a logout whose final set() leaves the error in place
StoreLogoutKeepsError(st, o) ==
    Done([st EXCEPT !.customer = Null, !.isAuthenticated = FALSE, !.loading = FALSE],
         "return", Undefined)

\* logout after `await api.logout()`: catch {} finally { set(...) }
StoreLogoutSettled(st, o) ==
    Done([customer |-> Null, isAuthenticated |-> FALSE, loading |-> FALSE, error |-> Null],
         "return", Undefined)

\* forgotPassword after `await api.forgotPassword(email)`
StoreForgotPasswordSettled(st, o) ==
    IF o.kind = "throw"
    THEN Done([st EXCEPT !.error = Get(o.val, "message"), !.loading = FALSE], "throw", o.val)
    ELSE Done([st EXCEPT !.loading = FALSE], "return", Undefined)

StoreSettled(st, op, o) ==
    CASE op \in {"login", "register"} -> StoreLoginSettled(st, op, o)
      [] op = "logout" -> StoreLogoutSettled(st, o)
      [] OTHER -> StoreForgotPasswordSettled(st, o)

(***************************************************************************)
(* What the backend may answer                                             *)
(***************************************************************************)
Object == [type |-> "object"]
Array == [type |-> "array"]
\* the payload of a rejection: without a message, with an empty one, with one
ErrorBodies ==
    {Object,
     [type |-> "object", message |-> Str(<< >>)],
     [type |-> "object", message |-> Str(<<"Request rejected">>)]}

\* transport failure, timeout, and the rejections 400 and 401
Failures ==
    {NoResponse("ERR_NETWORK"), NoResponse("ECONNABORTED")}
    \cup {HttpResponse(400, b) : b \in ErrorBodies}
    \cup {HttpResponse(401, Object)}

Rejected == [type |-> "object", success |-> Bool(FALSE), message |-> Str(<<"Invalid input">>)]

\* { success, customer, tokens }: the shape ApiClient.login reads
FlatSession(t, c) ==
    IF c = Undefined
    THEN [type |-> "object", success |-> Bool(TRUE), tokens |-> Tokens(t)]
    ELSE [type |-> "object", success |-> Bool(TRUE), tokens |-> Tokens(t), customer |-> c]

\* { success, data: { customer, tokens } }: the ApiResponse<T> envelope
EnvelopedSession(t, c) ==
    [type |-> "object", success |-> Bool(TRUE),
     data |-> [type |-> "object", customer |-> c, tokens |-> Tokens(t)]]

SessionBodies(t) ==
    {FlatSession(t, c) : c \in Customers \cup {Undefined}}
    \cup {EnvelopedSession(t, c) : c \in Customers}
    \cup {Rejected, Null}

ProfileBodies ==
    {[type |-> "object", success |-> Bool(TRUE), data |-> c] : c \in Customers}
    \cup {[type |-> "object", success |-> Bool(TRUE)], Rejected, Null}

ListBodies == {[type |-> "object", results |-> Array], Array, Null}

PlainBodies == {[type |-> "object", success |-> Bool(TRUE)], Rejected}

AuthOps == {"login", "register", "logout", "forgotPassword"}
CrudOps == {"getDashboard", "getProfile", "updateProfile", "getServiceRequests",
            "getServiceRequest", "createServiceRequest", "addComment"}
ApiOps == AuthOps \cup CrudOps
\* The methods called beside the store on the api of useTenant: logout,
\* updateProfile, and getDashboard for the calls that only read.
DirectOps == {"logout", "updateProfile", "getDashboard"}

Bodies(t, op) ==
    CASE op \in {"login", "register"} -> SessionBodies(t)
      [] op = "updateProfile" -> ProfileBodies
      [] op = "getServiceRequests" -> ListBodies
      [] OTHER -> PlainBodies

Responses(t, op) == Failures \cup {HttpResponse(200, b) : b \in Bodies(t, op)}

(***************************************************************************)
(* State machine                                                           *)
(***************************************************************************)
NotSent == [status |-> 0, data |-> Undefined, code |-> "unsent"]
NoRequest == [host |-> Undefined, path |-> << >>, handled |-> TRUE]

\* what the latest step ran: the operation, the tenant of its client, the
\* response it was given, the outcome of the ApiClient method (api), the
\* outcome of the store action that called it (kind, val; "none" for a method
\* called directly), and its effects in order
Ran(phase, via, op, t, r, api, kind, val, fx) ==
    [phase |-> phase, via |-> via, op |-> op, tenant |-> t, resp |-> r,
     api |-> api, kind |-> kind, val |-> val, fx |-> fx]

Outcome(o) == [kind |-> o.kind, val |-> o.val]
Pending == [kind |-> "pending", val |-> Undefined]

\* a browser on http://localhost:3000, served by `next dev`
LocalBrowser == [hostname |-> Str(<<"l", "o", "c", "a", "l", "h", "o", "s", "t">>),
                 nodeEnv |-> "development"]

\* useTenant() before its first render
Unmounted ==
    [renders |-> 0, params |-> Undefined, pathname |-> << >>, tenant |-> Undefined, api |-> 0]

\* The methods of the client run from effects and event handlers of client
\* components ('use client'), so in a browser: there is a window.
Init ==
    /\ hasWindow = TRUE
    /\ jar = << >>
    /\ href = << >>
    /\ store = InitialStore
    /\ storeTenant = "none"
    /\ inflight = << >>
    /\ started = 0
    /\ logoutRun = 0
    /\ last = Ran("init", "none", "none", "none", NotSent, Pending, "pending", Undefined, << >>)
    /\ request = NoRequest
    /\ xTenant = Undefined
    /\ env = LocalBrowser
    /\ hook = Unmounted
    /\ clients = << >>

CanSend == Len(inflight) < MaxCalls /\ started < MaxOps

\* createApiClient(tenant) and the request: the request interceptor reads the
\* token cookie and the request leaves with its Authorization header
Send(via, op, t) ==
    LET w == [jar |-> jar, href |-> href, fx |-> << >>]
        sent == IF hasWindow THEN Read(w, TokenKey(t)) ELSE w
    IN  /\ inflight' = Append(inflight, [via |-> via, op |-> op, tenant |-> t,
                                         auth |-> RequestInterceptor(w, t)])
        /\ started' = started + 1
        /\ last' = Ran("send", via, op, t, NotSent, Pending, "pending", Undefined, sent.fx)
        /\ UNCHANGED <<env, hook, clients, hasWindow, jar, href, request, xTenant>>

\* useAuthStore.login / register up to the await: set({loading: true, error: null})
StoreLogin(op, t) ==
    /\ CanSend
    /\ store' = [store EXCEPT !.loading = TRUE, !.error = Null]
    /\ storeTenant' = t
    /\ Send("store", op, t)
    /\ UNCHANGED logoutRun

\* useAuthStore.logout up to the await: set({loading: true})
StoreLogout(t) ==
    /\ CanSend
    /\ store' = [store EXCEPT !.loading = TRUE]
    /\ storeTenant' = t
    /\ Send("store", "logout", t)
    /\ UNCHANGED logoutRun

\* useAuthStore.forgotPassword up to the await
StoreForgotPassword(t) ==
    /\ CanSend
    /\ store' = [store EXCEPT !.loading = TRUE, !.error = Null]
    /\ storeTenant' = t
    /\ Send("store", "forgotPassword", t)
    /\ UNCHANGED logoutRun

\* an ApiClient method called directly (the api of useTenant), up to its await
ApiCall(op, t) ==
    /\ CanSend
    /\ Send("api", op, t)
    /\ UNCHANGED <<store, storeTenant, logoutRun>>

Remove(seq, i) == [j \in 1..(Len(seq) - 1) |-> IF j < i THEN seq[j] ELSE seq[j + 1]]

\* The response r of request i arrives: the response interceptor, the rest of
\* the ApiClient method and, for a store action, the rest of the action.
Settle(i, r) ==
    LET c == inflight[i]
        o == ApiMethod([jar |-> jar, href |-> href, fx |-> << >>], c.tenant, c.op, r)
        d == IF c.via = "store" THEN StoreSettled(store, c.op, o)
             ELSE Done(store, "none", Undefined)
    IN  /\ jar' = o.w.jar
        /\ href' = o.w.href
        /\ store' = d.store
        /\ inflight' = Remove(inflight, i)
        /\ logoutRun' = IF c.via = "store"
                        THEN IF c.op = "logout"
                             THEN (IF logoutRun < 2 THEN logoutRun + 1 ELSE 2)
                             ELSE 0
                        ELSE logoutRun
        /\ last' = Ran("settle", c.via, c.op, c.tenant, r, Outcome(o), d.kind, d.val, o.w.fx)
        /\ UNCHANGED <<env, hook, clients, hasWindow, storeTenant, started, request, xTenant>>

StoreSettle ==
    \E i \in 1..Len(inflight) :
        /\ inflight[i].via = "store"
        /\ \E r \in Responses(inflight[i].tenant, inflight[i].op) : Settle(i, r)

ApiSettle ==
    \E i \in 1..Len(inflight) :
        /\ inflight[i].via = "api"
        /\ \E r \in Responses(inflight[i].tenant, inflight[i].op) : Settle(i, r)

\* useAuthStore.loadCustomerFromStorage(tenant)
LoadCustomerFromStorage(t) ==
    LET c == getCurrentCustomer([jar |-> jar, href |-> href, fx |-> << >>], t)
        a == isAuthenticated(c.w, t)
    IN  /\ started < MaxOps
        /\ started' = started + 1
        /\ store' = [store EXCEPT !.customer = c.val, !.isAuthenticated = a.val.val,
                                  !.loading = FALSE]
        /\ storeTenant' = t
        /\ last' = Ran("sync", "store", "loadCustomerFromStorage", t, NotSent,
                       Pending, "return", Undefined, a.w.fx)
        /\ UNCHANGED <<env, hook, clients, hasWindow, jar, href, inflight, logoutRun, request, xTenant>>

\* useAuthStore.clearError()
ClearError ==
    /\ started < MaxOps
    /\ started' = started + 1
    /\ store' = [store EXCEPT !.error = Null]
    /\ last' = Ran("sync", "store", "clearError", "none", NotSent,
                   Pending, "return", Undefined, << >>)
    /\ UNCHANGED <<env, hook, clients, hasWindow, jar, href, storeTenant, inflight, logoutRun,
                   request, xTenant>>

\* ApiClient.getCurrentCustomer() called directly
GetCurrentCustomer(t) ==
    LET c == getCurrentCustomer([jar |-> jar, href |-> href, fx |-> << >>], t)
    IN  /\ started < MaxOps
        /\ started' = started + 1
        /\ last' = Ran("sync", "api", "getCurrentCustomer", t, NotSent,
                       Outcome(c), "none", Undefined, c.w.fx)
        /\ UNCHANGED <<env, hook, clients, hasWindow, jar, href, store, storeTenant, inflight,
                       logoutRun, request, xTenant>>

\* ApiClient.isAuthenticated() called directly
IsAuthenticated(t) ==
    LET a == isAuthenticated([jar |-> jar, href |-> href, fx |-> << >>], t)
    IN  /\ started < MaxOps
        /\ started' = started + 1
        /\ last' = Ran("sync", "api", "isAuthenticated", t, NotSent,
                       Outcome(a), "none", Undefined, a.w.fx)
        /\ UNCHANGED <<env, hook, clients, hasWindow, jar, href, store, storeTenant, inflight,
                       logoutRun, request, xTenant>>

Next ==
    \/ \E t \in Tenants : \E op \in {"login", "register"} : StoreLogin(op, t)
    \/ \E t \in Tenants : StoreLogout(t)
    \/ \E t \in Tenants : StoreForgotPassword(t)
    \/ \E t \in Tenants : \E op \in DirectOps : ApiCall(op, t)
    \/ StoreSettle
    \/ ApiSettle
    \/ \E t \in Tenants : LoadCustomerFromStorage(t)
    \/ ClearError

\* The auth store, with the ApiClient methods called beside it
Spec == Init /\ [][Next]_vars

\* The ApiClient alone: every method, called directly
NextApi ==
    \/ \E t \in Tenants : \E op \in ApiOps : ApiCall(op, t)
    \/ ApiSettle

SpecApi == Init /\ [][NextApi]_vars

(***************************************************************************)
(* The edge middleware (middleware.ts).  Hosts and paths are strings of    *)
(* single characters.                                                      *)
(***************************************************************************)
\* s.includes(sub)
Includes(s, sub) ==
    \E i \in 0..Len(s) : i + Len(sub) <= Len(s) /\ SubSeq(s, i + 1, i + Len(sub)) = sub

\* s.startsWith(sub)
StartsWith(s, sub) == Len(sub) <= Len(s) /\ SubSeq(s, 1, Len(sub)) = sub

RECURSIVE Split(_, _)
\* s.split(sep) for a one-character separator
Split(s, sep) ==
    IF \A i \in 1..Len(s) : s[i] # sep THEN <<s>>
    ELSE LET i == CHOOSE k \in 1..Len(s) : s[k] = sep /\ \A j \in 1..(k - 1) : s[j] # sep
         IN  <<SubSeq(s, 1, i - 1)>> \o Split(SubSeq(s, i + 1, Len(s)), sep)

\* array[i], counted from 0: undefined past the end
Index(array, i) == IF i + 1 <= Len(array) THEN Str(array[i + 1]) ELSE Undefined

PlatformDomain == <<"a", "c", "c", "e", "s", "s", "w", "a", "s", "h", ".", "o", "r", "g">>
Localhost == <<"l", "o", "c", "a", "l", "h", "o", "s", "t">>
Loopback == <<"1", "2", "7", ".", "0", ".", "0", ".", "1">>
Api == <<"a", "p", "i">>
Demo == <<"d", "e", "m", "o">>

\* a resolution that takes the second label of the host
ResolveTenantSecondLabel(host, pathname) ==
    LET hostname == OrElse(host, Str(<< >>)).val
    IN  IF Includes(hostname, PlatformDomain)
        THEN OrElse(Index(Split(hostname, "."), 1), Str(<< >>)).val
        ELSE IF Includes(hostname, Localhost) \/ Includes(hostname, Loopback)
        THEN LET pathSegments == Split(pathname, "/")
             IN  IF Truthy(Index(pathSegments, 1)) /\ Index(pathSegments, 1) # Str(Api)
                 THEN Index(pathSegments, 1).val
                 ELSE Demo
        ELSE Demo

\* the tenant middleware() resolves for a host header and a pathname
ResolveTenant(host, pathname) ==
    LET hostname == OrElse(host, Str(<< >>)).val
    IN  IF Includes(hostname, PlatformDomain)
        THEN Index(Split(hostname, "."), 0).val
        ELSE IF Includes(hostname, Localhost) \/ Includes(hostname, Loopback)
        THEN LET pathSegments == Split(pathname, "/")
             IN  IF Truthy(Index(pathSegments, 1)) /\ Index(pathSegments, 1) # Str(Api)
                 THEN Index(pathSegments, 1).val
                 ELSE Demo
        ELSE Demo

\* config.matcher: '/((?!api|_next/static|_next/image|favicon.ico).*)'
Matcher(pathname) ==
    /\ StartsWith(pathname, <<"/">>)
    /\ LET rest == SubSeq(pathname, 2, Len(pathname))
       IN  /\ ~StartsWith(rest, Api)
           /\ ~StartsWith(rest, <<"_", "n", "e", "x", "t", "/", "s", "t", "a", "t", "i", "c">>)
           /\ ~StartsWith(rest, <<"_", "n", "e", "x", "t", "/", "i", "m", "a", "g", "e">>)
           /\ ~StartsWith(rest, <<"f", "a", "v", "i", "c", "o", "n", ".", "i", "c", "o">>)

Hosts ==
    {Null,
     Str(<<"u", "t", "i", "l", "i", "t", "y", "1", ".", "a", "c", "c", "e", "s", "s", "w", "a", "s", "h", ".", "o", "r", "g">>),
     Str(<<"a", "c", "m", "e", ".", "a", "c", "c", "e", "s", "s", "w", "a", "s", "h", ".", "o", "r", "g">>),
     Str(<<"a", "c", "c", "e", "s", "s", "w", "a", "s", "h", ".", "o", "r", "g">>),
     Str(<<".", "a", "c", "c", "e", "s", "s", "w", "a", "s", "h", ".", "o", "r", "g">>),
     Str(<<"w", "w", "w", ".", "a", "c", "m", "e", ".", "a", "c", "c", "e", "s", "s", "w", "a", "s", "h", ".", "o", "r", "g">>),
     Str(<<"l", "o", "c", "a", "l", "h", "o", "s", "t", ":", "3", "0", "0", "0">>),
     Str(<<"1", "2", "7", ".", "0", ".", "0", ".", "1", ":", "3", "0", "0", "0">>),
     Str(<<"e", "x", "a", "m", "p", "l", "e", ".", "c", "o", "m">>),
     Str(<<>>)}

Paths ==
    {<<"/">>,
     <<"/", "a", "c", "m", "e", "/", "p", "o", "r", "t", "a", "l", "/", "d", "a", "s", "h", "b", "o", "a", "r", "d">>,
     <<"/", "d", "e", "m", "o">>,
     <<"/", "a", "c", "m", "e">>,
     <<"/", "/", "p", "o", "r", "t", "a", "l">>,
     <<"/", "a", "p", "i", "a", "r", "y">>,
     <<"/", "a", "p", "i", "/", "h", "e", "a", "l", "t", "h">>,
     <<"/", "_", "n", "e", "x", "t", "/", "s", "t", "a", "t", "i", "c", "/", "a", "p", "p", ".", "j", "s">>,
     <<"/", "f", "a", "v", "i", "c", "o", "n", ".", "i", "c", "o">>,
     <<"/", "p", "o", "r", "t", "a", "l", "/", "a", "p", "i">>}

\* a request reaches the server
Receive(host, pathname) ==
    /\ request' = [host |-> host, path |-> pathname, handled |-> FALSE]
    /\ xTenant' = Undefined
    /\ UNCHANGED <<env, hook, clients, hasWindow, jar, href, store, storeTenant, inflight, started,
                   logoutRun, last>>

\* middleware(request): NextResponse.next() with the x-tenant header set
Middleware ==
    /\ request # NoRequest /\ ~request.handled
    /\ Matcher(request.path)
    /\ request' = [request EXCEPT !.handled = TRUE]
    /\ xTenant' = Str(ResolveTenant(request.host, request.path))
    /\ UNCHANGED <<env, hook, clients, hasWindow, jar, href, store, storeTenant, inflight, started,
                   logoutRun, last>>

\* a path the matcher excludes is served without the middleware
Bypass ==
    /\ request # NoRequest /\ ~request.handled
    /\ ~Matcher(request.path)
    /\ request' = [request EXCEPT !.handled = TRUE]
    /\ UNCHANGED <<env, hook, clients, hasWindow, jar, href, store, storeTenant, inflight, started,
                   logoutRun, last, xTenant>>

NextRouting ==
    \/ \E h \in Hosts : \E p \in Paths : Receive(h, p)
    \/ Middleware
    \/ Bypass

SpecRouting == Init /\ [][NextRouting]_vars

(***************************************************************************)
(* Reading the session: ApiClient.getCurrentCustomer and isAuthenticated   *)
(* applied to every cookie jar the client can leave behind.                *)
(***************************************************************************)
\* the texts the client writes into a customer cookie
CustomerTexts == {StringOf(JSONStringify(c)) : c \in Customers \cup {Undefined, Null}}

\* the cookies of one tenant: each absent, or holding a value the client writes
TenantJars(t) ==
    {<< >>}
    \cup {(TokenKey(t) :> TokenOf(t).val)}
    \cup {(CustomerKey(t) :> x) : x \in CustomerTexts}
    \cup {(TokenKey(t) :> TokenOf(t).val) @@ (CustomerKey(t) :> x) : x \in CustomerTexts}

InitSession ==
    /\ hasWindow = TRUE
    /\ jar \in {a @@ d : a \in TenantJars("acme"), d \in TenantJars("demo")}
    /\ href = << >>
    /\ store = InitialStore
    /\ storeTenant = "none"
    /\ inflight = << >>
    /\ started = 0
    /\ logoutRun = 0
    /\ last = Ran("init", "none", "none", "none", NotSent, Pending, "pending", Undefined, << >>)
    /\ request = NoRequest
    /\ xTenant = Undefined
    /\ env = LocalBrowser
    /\ hook = Unmounted
    /\ clients = << >>

NextSession ==
    \/ \E t \in Tenants : GetCurrentCustomer(t)
    \/ \E t \in Tenants : IsAuthenticated(t)
    \/ \E t \in Tenants : LoadCustomerFromStorage(t)

SpecSession == InitSession /\ [][NextSession]_vars

(***************************************************************************)
(* useTenant() (hooks/use-tenant.ts) and the client it constructs.  Tenants *)
(* and pathnames are strings of single characters, as in the middleware.   *)
(***************************************************************************)
MaxRenders == 3   \* renders of the component that calls useTenant()

DevelopmentURL(tenant) == <<"http://">> \o tenant \o <<".accesswash.org", ":8000", "/api">>
ProductionURL(tenant) == <<"https://">> \o tenant \o <<".accesswash.org", "/api">>

\* a getBaseURL() that goes by NODE_ENV in the browser too
getBaseURLByFlag(tenant) ==
    IF env.nodeEnv = "development" THEN DevelopmentURL(tenant) ELSE ProductionURL(tenant)

\* getBaseURL() of the constructor
getBaseURL(tenant) ==
    IF hasWindow
    THEN LET hostname == env.hostname.val
         IN  IF Includes(hostname, Localhost) \/ Includes(hostname, Loopback)
             THEN DevelopmentURL(tenant)
             ELSE ProductionURL(tenant)
    ELSE IF env.nodeEnv = "development"
         THEN DevelopmentURL(tenant)
         ELSE ProductionURL(tenant)

\* createApiClient(tenant): new ApiClient(tenant), with axios.create({baseURL, timeout})
createApiClient(tenant) == [tenant |-> tenant, baseURL |-> getBaseURL(tenant)]

\* a resolution without the fallback to "demo"
TenantOfNoDefault(params, pathname) ==
    IF Truthy(GetOpt(params, "tenant")) /\ GetOpt(params, "tenant").type = "string"
    THEN params.tenant
    ELSE OrElse(Index(Split(pathname, "/"), 1), Str(<< >>))

\* the callback of useMemo(..., [params, pathname])
TenantOf(params, pathname) ==
    IF Truthy(GetOpt(params, "tenant")) /\ GetOpt(params, "tenant").type = "string"
    THEN params.tenant
    ELSE OrElse(Index(Split(pathname, "/"), 1), Str(Demo))

Acme == <<"a", "c", "m", "e">>

\* what useParams() returns: null outside the app router, the route's
\* parameters otherwise; a catch-all segment is an array
RouteParams ==
    {Null, Object, [type |-> "object", tenant |-> Str(Acme)],
     [type |-> "object", tenant |-> Array]}

\* what usePathname() returns
Pathnames ==
    {<<"/">>, <<"/", "d", "e", "m", "o">>, <<"/", "/", "p", "o", "r", "t", "a", "l">>,
     <<"/", "a", "c", "m", "e", "/", "p", "o", "r", "t", "a", "l">>}

\* One render of a component that calls useTenant(): the first useMemo
\* recomputes the tenant when params or pathname changed, the second one
\* constructs a client when the tenant changed.
UseTenant(params, pathname) ==
    LET first == hook.renders = 0
        tenant == IF first \/ params # hook.params \/ pathname # hook.pathname
                  THEN TenantOf(params, pathname)
                  ELSE hook.tenant
        create == first \/ tenant # hook.tenant
    IN  /\ hook.renders < MaxRenders
        /\ clients' = IF create THEN Append(clients, createApiClient(tenant.val)) ELSE clients
        /\ hook' = [renders |-> hook.renders + 1, params |-> params, pathname |-> pathname,
                    tenant |-> tenant, api |-> IF create THEN Len(clients) + 1 ELSE hook.api]
        /\ UNCHANGED <<env, hasWindow, jar, href, store, storeTenant, inflight, started,
                       logoutRun, last, request, xTenant>>

\* the hostnames a page of the portal is opened under
Hostnames ==
    {Str(Localhost), Str(Loopback),
     Str(Acme \o <<".">> \o Localhost),
     Str(Acme \o <<".">> \o PlatformDomain)}

NodeEnvs == {"development", "production", "test"}

\* The component renders in the browser and, before that, on the server
\* (a client component is prerendered), where there is no window.
InitTenant ==
    /\ hasWindow \in BOOLEAN
    /\ env \in [hostname : Hostnames \cup {Undefined}, nodeEnv : NodeEnvs]
    /\ hasWindow <=> env.hostname # Undefined
    /\ jar = << >>
    /\ href = << >>
    /\ store = InitialStore
    /\ storeTenant = "none"
    /\ inflight = << >>
    /\ started = 0
    /\ logoutRun = 0
    /\ last = Ran("init", "none", "none", "none", NotSent, Pending, "pending", Undefined, << >>)
    /\ request = NoRequest
    /\ xTenant = Undefined
    /\ hook = Unmounted
    /\ clients = << >>

NextTenant == \E params \in RouteParams : \E pathname \in Pathnames : UseTenant(params, pathname)

SpecTenant == InitTenant /\ [][NextTenant]_vars

(***************************************************************************)
(* A page load: the document request passes the middleware and the page    *)
(* that is served renders useTenant() with the pathname of that request.   *)
(***************************************************************************)
\* the browser requests a document: a new page, nothing mounted yet
Load(host, pathname) ==
    /\ request' = [host |-> host, path |-> pathname, handled |-> FALSE]
    /\ xTenant' = Undefined
    /\ hook' = Unmounted
    /\ clients' = << >>
    /\ UNCHANGED <<env, hasWindow, jar, href, store, storeTenant, inflight, started,
                   logoutRun, last>>

\* a render of the page the handled request serves: usePathname() is the
\* pathname of the request
RenderPage(params) ==
    /\ request # NoRequest /\ request.handled
    /\ Matcher(request.path)
    /\ UseTenant(params, request.path)

NextPage ==
    \/ \E h \in Hosts : \E p \in Paths : Load(h, p)
    \/ Middleware
    \/ Bypass
    \/ \E params \in RouteParams : RenderPage(params)

SpecPage == Init /\ [][NextPage]_vars

(***************************************************************************)
(* Properties                                                              *)
(***************************************************************************)
HasCookie(name) == name \in DOMAIN jar
SettledOp(ops) == last.phase = "settle" /\ last.op \in ops

\* the cookies of tenant t in jar j
CookiesOf(j, t) == [n \in {TokenKey(t), CustomerKey(t)} \cap DOMAIN j |-> j[n]]

\* C1: a step of a client of one tenant leaves the token and customer cookies
\* of every other tenant as they were, and none of its cookie reads, writes
\* and removals names a cookie of another tenant.
C1_StorageKeyIsolation ==
    [][\A t \in Tenants :
          last'.tenant # t =>
              /\ CookiesOf(jar', t) = CookiesOf(jar, t)
              /\ \A k \in 1..Len(last'.fx) :
                    last'.fx[k].what \notin {TokenKey(t), CustomerKey(t)}]_vars

\* a client of demo has handled a 401 while acme holds a session
C1_Witness ==
    /\ SettledOp(ApiOps) /\ last.tenant = "demo" /\ last.resp.status = 401
    /\ Len(last.fx) > 1
    /\ HasCookie(TokenKey("acme")) /\ HasCookie(CustomerKey("acme"))

NoAuthActionInFlight == \A i \in 1..Len(inflight) : inflight[i].via # "store"

\* C2: with no auth action in flight, the store's isAuthenticated is true
\* exactly when the token cookie and the customer cookie of the tenant the
\* store was last driven with both exist.
C2_AuthenticatedIffSession ==
    NoAuthActionInFlight =>
        (store.isAuthenticated <=>
            /\ storeTenant \in Tenants
            /\ HasCookie(TokenKey(storeTenant))
            /\ HasCookie(CustomerKey(storeTenant)))

\* the customer of a successful login or register answer, wherever it sits
ReturnedCustomer(body) ==
    IF "data" \in DOMAIN body THEN Get(body.data, "customer") ELSE Get(body, "customer")

SuccessfulLogin ==
    /\ SettledOp({"login", "register"})
    /\ last.api.kind = "return"
    /\ Truthy(Get(last.api.val, "success"))
    /\ ReturnedCustomer(last.api.val) \in Customers

\* C3: after ApiClient.login or register completes successfully,
\* getCurrentCustomer() of the same tenant returns the customer the backend
\* returned, and not null.
C3_LoginRoundTrip ==
    SuccessfulLogin =>
        LET got == getCurrentCustomer([jar |-> jar, href |-> href, fx |-> << >>], last.tenant).val
        IN  got # Null /\ got = ReturnedCustomer(last.api.val)

Count(fx, kind) == Cardinality({k \in 1..Len(fx) : fx[k].e = kind})
Position(fx, kind, what) ==
    CHOOSE k \in 1..Len(fx) : fx[k] = Fx(kind, what)

\* the effects of a 401: both cookies of the tenant removed, then one
\* navigation to the tenant's login page, then the rejection
Handled401(fx, t) ==
    /\ Fx("remove", TokenKey(t)) \in {fx[k] : k \in 1..Len(fx)}
    /\ Fx("remove", CustomerKey(t)) \in {fx[k] : k \in 1..Len(fx)}
    /\ Count(fx, "navigate") = 1
    /\ Fx("navigate", LoginPage(t)) \in {fx[k] : k \in 1..Len(fx)}
    /\ Count(fx, "reject") = 1
    /\ Position(fx, "remove", TokenKey(t)) < Position(fx, "navigate", LoginPage(t))
    /\ Position(fx, "remove", CustomerKey(t)) < Position(fx, "navigate", LoginPage(t))
    /\ Position(fx, "navigate", LoginPage(t)) < Position(fx, "reject", << >>)

\* C4: every 401 removes both cookies of the tenant and navigates exactly
\* once to the tenant's login page, before the failure is reported to the
\* caller.
C4_Handles401 ==
    (SettledOp(ApiOps) /\ last.resp.status = 401) =>
        /\ Handled401(last.fx, last.tenant)
        /\ ~HasCookie(TokenKey(last.tenant)) /\ ~HasCookie(CustomerKey(last.tenant))
        /\ href = LoginPage(last.tenant)
        /\ last.op # "logout" => last.api.kind = "throw"

\* a directly called method, the second request of the behaviour, was
\* answered 401 in a browser and threw
C4_Witness ==
    /\ SettledOp(CrudOps) /\ last.resp.status = 401
    /\ started = 2 /\ last.api.kind = "throw"

CustomerCookie(j, t) == IF CustomerKey(t) \in DOMAIN j THEN Str(j[CustomerKey(t)]) ELSE Undefined

UpdateProfileSucceeded(l) ==
    l.api.kind = "return" /\ Truthy(Get(l.api.val, "success"))

\* C5 as stated: a successful updateProfile leaves the returned data in the
\* customer cookie, and every failure leaves the customer cookie as it was.
C5_Original ==
    [][(last'.phase = "settle" /\ last'.op = "updateProfile") =>
          IF UpdateProfileSucceeded(last')
          THEN CustomerCookie(jar', last'.tenant)
                   = Str(StringOf(JSONStringify(Get(last'.api.val, "data"))))
          ELSE CustomerCookie(jar', last'.tenant) = CustomerCookie(jar, last'.tenant)]_vars

\* C5 as amended: a successful updateProfile leaves the JSON text of the
\* returned data in the customer cookie; a failure other than a 401 leaves the
\* customer cookie as it was; a 401 removes both cookies of the tenant.
C5_UpdateProfile ==
    [][(last'.phase = "settle" /\ last'.op = "updateProfile") =>
          IF UpdateProfileSucceeded(last')
          THEN CustomerCookie(jar', last'.tenant)
                   = Str(StringOf(JSONStringify(Get(last'.api.val, "data"))))
          ELSE IF last'.resp.status = 401
          THEN CookiesOf(jar', last'.tenant) = << >>
          ELSE CustomerCookie(jar', last'.tenant) = CustomerCookie(jar, last'.tenant)]_vars

\* updateProfile timed out while the tenant's customer cookie was cached
C5_Witness ==
    /\ SettledOp({"updateProfile"}) /\ last.resp.code = "ECONNABORTED"
    /\ last.api.kind = "throw"
    /\ HasCookie(CustomerKey(last.tenant))

\* the customer cookie of t is present and getCurrentCustomer can read it
Readable(t) ==
    /\ HasCookie(CustomerKey(t))
    /\ JSONParse(jar[CustomerKey(t)]).ok
    /\ JSONParse(jar[CustomerKey(t)]).val # Null

\* C6: isAuthenticated() returns (and never throws) true exactly when the
\* token cookie and a readable customer cookie of the tenant are both
\* present, so false whenever either cookie is absent.
C6_IsAuthenticated ==
    (last.phase = "sync" /\ last.op = "isAuthenticated") =>
        /\ last.api.kind = "return"
        /\ last.api.val = Bool(HasCookie(TokenKey(last.tenant)) /\ Readable(last.tenant))
        /\ (~HasCookie(TokenKey(last.tenant)) \/ ~HasCookie(CustomerKey(last.tenant)))
               => last.api.val = Bool(FALSE)

\* isAuthenticated() answered true for one tenant while the other tenant
\* holds a token without a customer cookie
C6_Witness ==
    /\ last.phase = "sync" /\ last.op = "isAuthenticated" /\ last.api.val = Bool(TRUE)
    /\ \E t \in Tenants : HasCookie(TokenKey(t)) /\ ~HasCookie(CustomerKey(t))

\* C7: a store logout never raises and, whatever the answer to the remote
\* call, ends with customer = null, isAuthenticated = false, error = null and
\* loading = false, the first time and the second time in succession.
C7_LogoutIdempotent ==
    (SettledOp({"logout"}) /\ last.via = "store") =>
        /\ last.kind = "return"
        /\ logoutRun \in {1, 2}
        /\ store = [customer |-> Null, isAuthenticated |-> FALSE,
                    error |-> Null, loading |-> FALSE]

\* the second of two store logouts in succession has completed, answered 401
C7_Witness ==
    /\ SettledOp({"logout"}) /\ last.via = "store"
    /\ logoutRun = 2 /\ last.resp.status = 401

\* C8: ApiClient.logout() resolves, whatever the server's answer, and neither
\* cookie of the tenant is present when it completes.
C8_LogoutClears ==
    SettledOp({"logout"}) =>
        /\ last.api.kind = "return"
        /\ ~HasCookie(TokenKey(last.tenant))
        /\ ~HasCookie(CustomerKey(last.tenant))

\* a logout whose request got no response has removed the cookies in a browser
C8_Witness ==
    /\ SettledOp({"logout"}) /\ last.resp.status = 0
    /\ started = 2
    /\ last.fx = <<Fx("reject", << >>), Fx("remove", TokenKey(last.tenant)),
                   Fx("remove", CustomerKey(last.tenant))>>

\* the message of the rejection's payload, when it has one
BackendMessage(r) ==
    IF r.status # 0 /\ "message" \in DOMAIN r.data /\ r.data.message.val # << >>
    THEN r.data.message.val
    ELSE << >>

\* C9: every failure of a network operation other than logout reaches the
\* caller as an Error whose message is the backend's message when the payload
\* has one and the operation's default string otherwise.
C9_NormalizedErrors ==
    (SettledOp(ApiOps \ {"logout"}) /\ (~Fulfilled(last.resp) \/ last.api.kind = "throw")) =>
        /\ last.api.kind = "throw"
        /\ last.api.val.name = "Error"
        /\ DOMAIN last.api.val = {"type", "name", "message"}
        /\ last.api.val.message =
               Str(IF ~Fulfilled(last.resp) /\ BackendMessage(last.resp) # << >>
                   THEN BackendMessage(last.resp)
                   ELSE DefaultMessage(last.op))

\* a request that timed out has surfaced as the default message of its method
C9_Witness ==
    /\ SettledOp({"getServiceRequests"}) /\ last.resp.code = "ECONNABORTED"
    /\ last.api.kind = "throw"
    /\ last.api.val.message = Str(<<"Failed to load service requests">>)

(***************************************************************************)
(* C10: the tenant the middleware attaches                                 *)
(***************************************************************************)
\* the text of s before its first dot (all of s when it has none)
BeforeFirstDot(s) ==
    LET dots == {i \in 1..Len(s) : s[i] = "."}
    IN  IF dots = {} THEN s
        ELSE SubSeq(s, 1, (CHOOSE i \in dots : \A j \in dots : i <= j) - 1)

\* the text of a pathname between its first and its second slash
FirstSegment(p) ==
    LET rest == SubSeq(p, 2, Len(p))
        cut == {i \in 1..Len(rest) : rest[i] = "/"}
    IN  IF cut = {} THEN rest
        ELSE SubSeq(rest, 1, (CHOOSE i \in cut : \A j \in cut : i <= j) - 1)

HostText(h) == IF h = Null THEN << >> ELSE h.val

Handled == request # NoRequest /\ request.handled /\ Matcher(request.path)

\* C10: a handled request carries x-tenant; for a host containing the platform
\* domain it is the text before the host's first dot, otherwise for a local
\* development host it is the first path segment when that is non-empty and
\* not "api", else "demo".
C10_EdgeResolution ==
    Handled =>
        LET host == HostText(request.host)
            seg == FirstSegment(request.path)
        IN  /\ xTenant.type = "string"
            /\ Includes(host, PlatformDomain) => xTenant.val = BeforeFirstDot(host)
            /\ (~Includes(host, PlatformDomain)
                  /\ (Includes(host, Localhost) \/ Includes(host, Loopback))) =>
                   xTenant.val = IF seg # << >> /\ seg # Api THEN seg ELSE Demo

\* localhost:3000 with /acme/portal/dashboard was stamped "acme"
C10_Witness ==
    /\ Handled
    /\ request.host = Str(Localhost \o <<":", "3", "0", "0", "0">>)
    /\ FirstSegment(request.path) = <<"a", "c", "m", "e">>
    /\ Len(request.path) > 5
    /\ xTenant = Str(<<"a", "c", "m", "e">>)

(***************************************************************************)
(* C11: hosts that name no tenant                                          *)
(***************************************************************************)
\* the host is the platform domain itself, with no label in front of it
NoSubdomainLabel(host) == StartsWith(host, PlatformDomain)

LeadingDot(host) == host # << >> /\ host[1] = "."

\* neither the platform domain nor a local-development name
Unrecognised(host) ==
    /\ ~Includes(host, PlatformDomain)
    /\ ~Includes(host, Localhost)
    /\ ~Includes(host, Loopback)

\* a host header that is missing, empty or malformed
Malformed(host) ==
    host = << >> \/ NoSubdomainLabel(host) \/ LeadingDot(host) \/ Unrecognised(host)

\* C11: every handled request gets an x-tenant header that is a non-empty
\* string, and for a missing, empty or malformed host (no subdomain label, a
\* leading dot, neither platform domain nor local name) it is "demo".
C11_MalformedHostsDefault ==
    Handled =>
        /\ xTenant.type = "string"
        /\ xTenant.val # << >>
        /\ Malformed(HostText(request.host)) => xTenant.val = Demo

(***************************************************************************)
(* C12: the tenant and the client of useTenant()                           *)
(***************************************************************************)
HasStringTenant(params) ==
    /\ params.type = "object"
    /\ "tenant" \in DOMAIN params
    /\ params.tenant.type = "string"

\* C12: every render of useTenant() returns a non-empty string: the string
\* route parameter tenant when there is one, else the first path segment, else
\* "demo"; its client is a client of that tenant, kept from the previous
\* render when the tenant is the same and constructed anew only when the
\* tenant changed.
C12_TenantResolver ==
    [][hook'.renders > hook.renders =>
          /\ hook'.tenant.type = "string"
          /\ hook'.tenant.val # << >>
          /\ hook'.tenant.val =
                IF HasStringTenant(hook'.params) THEN hook'.params.tenant.val
                ELSE IF FirstSegment(hook'.pathname) # << >>
                THEN FirstSegment(hook'.pathname)
                ELSE Demo
          /\ hook'.api \in 1..Len(clients')
          /\ clients'[hook'.api].tenant = hook'.tenant.val
          /\ (hook.renders > 0 /\ hook'.tenant = hook.tenant) =>
                 clients' = clients /\ hook'.api = hook.api
          /\ (hook.renders = 0 \/ hook'.tenant # hook.tenant) =>
                 Len(clients') = Len(clients) + 1 /\ hook'.api = Len(clients')]_vars

\* three renders: /acme/portal, then "/" with other route parameters, then
\* //portal; the tenant went from acme to demo and stayed
C12_Witness ==
    /\ hook.renders = 3
    /\ hook.pathname = <<"/", "/", "p", "o", "r", "t", "a", "l">>
    /\ hook.tenant = Str(Demo)
    /\ Len(clients) = 2
    /\ clients[1].tenant = Acme

(***************************************************************************)
(* C13: how the auth actions of the store end                              *)
(***************************************************************************)
\* the ApiClient method threw, or returned an answer that is not a success
ApiReportedFailure(l) ==
    l.api.kind = "throw" \/ ~Truthy(Get(l.api.val, "success"))

\* the message of the failure the ApiClient reported
FailureMessage(l) ==
    IF l.api.kind = "throw" THEN l.api.val.message
    ELSE OrElse(Get(l.api.val, "message"), Str(DefaultMessage(l.op)))

\* C13: a store login, register or forgotPassword whose ApiClient call failed
\* ends with isAuthenticated = false, customer = null, error = the normalized
\* message and loading = false; a login or register whose call succeeded ends
\* authenticated with the customer the backend returned and loading = false.
C13_AuthActionOutcome ==
    (SettledOp({"login", "register", "forgotPassword"}) /\ last.via = "store") =>
        IF ApiReportedFailure(last)
        THEN store = [isAuthenticated |-> FALSE, customer |-> Null,
                      error |-> FailureMessage(last), loading |-> FALSE]
        ELSE (last.op \in {"login", "register"}
                /\ ReturnedCustomer(last.api.val) \in Customers) =>
                 /\ store.isAuthenticated
                 /\ store.customer = ReturnedCustomer(last.api.val)
                 /\ ~store.loading

(***************************************************************************)
(* C14: the frame of loadCustomerFromStorage                               *)
(***************************************************************************)
\* C14: loadCustomerFromStorage(tenant) sends no request and changes only
\* customer and isAuthenticated, to what the tenant's cookies hold; loading
\* and error stay as they were, also while an auth action is in flight.
C14_LoadFromStorageFrame ==
    [][(last'.phase = "sync" /\ last'.op = "loadCustomerFromStorage") =>
          /\ inflight' = inflight
          /\ jar' = jar
          /\ store'.loading = store.loading
          /\ store'.error = store.error
          /\ store'.customer = IF Readable(last'.tenant)
                               THEN JSONParse(jar[CustomerKey(last'.tenant)]).val
                               ELSE Null
          /\ store'.isAuthenticated =
                 (HasCookie(TokenKey(last'.tenant)) /\ Readable(last'.tenant))]_vars

(***************************************************************************)
(* C15: two auth actions in flight together                                *)
(***************************************************************************)
\* the store once action op, issued alone on the initial store, has completed
\* with the outcome api of its ApiClient call
Alone(op, api) ==
    LET issued == IF op = "logout" THEN [InitialStore EXCEPT !.loading = TRUE]
                  ELSE [InitialStore EXCEPT !.loading = TRUE, !.error = Null]
    IN  StoreSettled(issued, op, api).store

\* the step completes the second of two store actions of one tenant that were
\* the first operations of the behaviour and in flight together
SecondOfTwoCompletes ==
    /\ started = 2
    /\ last.phase = "settle" /\ last.via = "store"
    /\ last'.phase = "settle" /\ last'.via = "store"
    /\ last'.tenant = last.tenant
    /\ Len(inflight) = 1 /\ inflight' = << >>

\* C15: when two auth actions of one tenant are in flight together, the
\* completion of the first leaves the other in flight, and once the second
\* has completed the store is what that second action would have produced
\* on its own.
C15_LastCompletionWins ==
    [][/\ (last'.phase = "settle" /\ Len(inflight) = 2) => Len(inflight') = 1
       /\ SecondOfTwoCompletes => store' = Alone(last'.op, last'.api)]_vars

(***************************************************************************)
(* C16: what creates and what removes the session cookies                  *)
(***************************************************************************)
\* the method threw, its request was rejected, or the answer says success: false
Failed(l) ==
    \/ l.api.kind = "throw"
    \/ ~Fulfilled(l.resp)
    \/ Get(l.api.val, "success") = Bool(FALSE)

Created(name) == name \notin DOMAIN jar /\ name \in DOMAIN jar'
Removed(name) == name \in DOMAIN jar /\ name \notin DOMAIN jar'

\* C16: a token cookie comes into being only in the completion of a
\* successful login or register of its tenant; a cookie of a tenant goes away
\* only in a logout or a 401 of that tenant; a failed call other than logout
\* whose outcome is not a 401 leaves both cookies of the tenant as they were.
C16_SessionLifecycle ==
    [][\A t \in Tenants :
          /\ Created(TokenKey(t)) =>
                 /\ last'.phase = "settle" /\ last'.tenant = t
                 /\ last'.op \in {"login", "register"}
                 /\ ~Failed(last')
          /\ (Removed(TokenKey(t)) \/ Removed(CustomerKey(t))) =>
                 /\ last'.phase = "settle" /\ last'.tenant = t
                 /\ last'.op = "logout" \/ last'.resp.status = 401
          /\ (/\ last'.phase = "settle" /\ last'.tenant = t
              /\ last'.op # "logout" /\ Failed(last') /\ last'.resp.status # 401) =>
                 CookiesOf(jar', t) = CookiesOf(jar, t)]_vars

\* a login rejected with 400 has completed while the tenant holds a session
C16_Witness ==
    /\ SettledOp({"login"}) /\ last.resp.status = 400
    /\ HasCookie(TokenKey(last.tenant)) /\ HasCookie(CustomerKey(last.tenant))

(***************************************************************************)
(* C17: the Authorization header of a request                              *)
(***************************************************************************)
Bearer(token) == Str(<<"Bearer ">> \o token)

\* C17: a request leaves with "Bearer <token>" exactly when the token cookie
\* of its client's tenant is present as it is sent, with that cookie's value
\* for token and never the token of another tenant; it leaves without an
\* Authorization header otherwise.
C17_BearerIffToken ==
    [][(last'.phase = "send" /\ Len(inflight') = Len(inflight) + 1) =>
          LET sent == inflight'[Len(inflight')]
              t == sent.tenant
          IN  /\ sent.auth = IF HasCookie(TokenKey(t)) THEN Bearer(jar[TokenKey(t)])
                             ELSE Undefined
              /\ \A u \in Tenants \ {t} :
                    HasCookie(TokenKey(u)) => sent.auth # Bearer(jar[TokenKey(u)])]_vars

\* a request of acme left with the token its login stored
C17_Witness ==
    /\ last.phase = "send" /\ last.tenant = "acme"
    /\ HasCookie(TokenKey("acme"))
    /\ inflight[Len(inflight)].auth = Bearer(<<"jwt-", "acme">>)

(***************************************************************************)
(* C18: the base URL of a client                                           *)
(***************************************************************************)
\* local development: by the hostname in a browser, by NODE_ENV elsewhere
LocalDevelopment ==
    IF hasWindow
    THEN Includes(env.hostname.val, Localhost) \/ Includes(env.hostname.val, Loopback)
    ELSE env.nodeEnv = "development"

\* C18: every client's base URL is http://{tenant}.accesswash.org:8000/api in
\* local development and https://{tenant}.accesswash.org/api otherwise, for
\* the tenant it was constructed with, and stays what it was at construction.
C18_BaseURL ==
    [][/\ \A i \in DOMAIN clients' :
              clients'[i].baseURL =
                  IF LocalDevelopment
                  THEN <<"http://">> \o clients'[i].tenant \o <<".accesswash.org", ":8000", "/api">>
                  ELSE <<"https://">> \o clients'[i].tenant \o <<".accesswash.org", "/api">>
       /\ \A i \in DOMAIN clients : clients'[i] = clients[i]]_vars

\* in a browser on acme.accesswash.org, served by a development build, a
\* second client was constructed: for demo, with the production URL
C18_Witness ==
    /\ hasWindow /\ env.nodeEnv = "development"
    /\ env.hostname = Str(Acme \o <<".">> \o PlatformDomain)
    /\ Len(clients) = 2
    /\ clients[1].tenant = Acme
    /\ clients[2] = [tenant |-> Demo,
                     baseURL |-> <<"https://", "d", "e", "m", "o", ".accesswash.org", "/api">>]

(***************************************************************************)
(* C19: the two cookies of a tenant                                        *)
(***************************************************************************)
\* C19 as stated: in every state the token cookie and the customer cookie of
\* a tenant are both present or both absent.
C19_Original ==
    \A t \in Tenants : HasCookie(TokenKey(t)) <=> HasCookie(CustomerKey(t))

\* C19 as amended: in every state a tenant whose token cookie is present has
\* its customer cookie present too.
C19_CookiePairing ==
    \A t \in Tenants : HasCookie(TokenKey(t)) => HasCookie(CustomerKey(t))

\* an updateProfile has succeeded for a tenant that holds a session, while
\* the other tenant holds none
C19_Witness ==
    /\ SettledOp({"updateProfile"}) /\ UpdateProfileSucceeded(last)
    /\ HasCookie(TokenKey(last.tenant)) /\ HasCookie(CustomerKey(last.tenant))
    /\ \E u \in Tenants : ~HasCookie(TokenKey(u))

(***************************************************************************)
(* C20: the loading flag                                                   *)
(***************************************************************************)
\* C20: in every state of the store, loading is true exactly when a login,
\* register, logout or forgotPassword of the store is in flight.
C20_LoadingIffInFlight ==
    store.loading <=> ~NoAuthActionInFlight

(***************************************************************************)
(* C21: the middleware and useTenant() on the same request                 *)
(***************************************************************************)
\* C21: when the page of a request the middleware handled renders without a
\* string route parameter tenant, the tenant useTenant() returns is the
\* tenant the middleware put in x-tenant.
C21_ResolversAgree ==
    [][(Handled /\ hook'.renders > hook.renders /\ ~HasStringTenant(hook'.params)) =>
          hook'.tenant = xTenant']_vars

====
